---- MODULE Spec2Model ----
(***************************************************************************)
(* Habit tracker: Habit (streak computation), HabitManager (registry and   *)
(* completion gate), DataStorage (one table keyed by name) and the         *)
(* analytics functions.                                                    *)
(*                                                                         *)
(* A date is the number of days since 1970-01-01 (Python's                 *)
(* date.toordinal() - 719163); date - date is integer subtraction and      *)
(* timedelta(days=n) is n.  A habit name is a sequence of ASCII codes, so  *)
(* that str.lower() is computed.  An optional argument is <<>> (None) or   *)
(* <<v>>.                                                                  *)
(***************************************************************************)
EXTENDS Integers, Sequences, FiniteSets, TLC

VARIABLES
    habits,    \* HabitManager.habits: list of Habit objects
    storage,   \* rows of the table "habits", in rowid order
    ret        \* the last call: operation, arguments, value returned,
               \* exception raised, calls made to DataStorage

vars == <<habits, storage, ret>>

----------------------------------------------------------------------------
(* datetime.date                                                           *)

\* date(y, m, d) / strptime(.., '%Y-%m-%d').date(): proleptic Gregorian
\* calendar, as days since 1970-01-01.
DaysFromCivil(y, m, d) ==
    LET yy  == IF m <= 2 THEN y - 1 ELSE y
        era == yy \div 400
        yoe == yy - era * 400
        mp  == IF m > 2 THEN m - 3 ELSE m + 9
        doy == (153 * mp + 2) \div 5 + d - 1
        doe == yoe * 365 + yoe \div 4 - yoe \div 100 + doy
    IN  era * 146097 + doe - 719468

\* The calendar fields <<year, month, day>> of a date.
CivilFromDays(z) ==
    LET zz  == z + 719468
        era == zz \div 146097
        doe == zz - era * 146097
        yoe == (doe - doe \div 1460 + doe \div 36524 - doe \div 146096) \div 365
        doy == doe - (365 * yoe + yoe \div 4 - yoe \div 100)
        mp  == (5 * doy + 2) \div 153
        d   == doy - (153 * mp + 2) \div 5 + 1
        m   == IF mp < 10 THEN mp + 3 ELSE mp - 9
        y   == yoe + era * 400
    IN  <<IF m <= 2 THEN y + 1 ELSE y, m, d>>

\* date.year, date.month
Year(date)  == CivilFromDays(date)[1]
Month(date) == CivilFromDays(date)[2]

\* date.strftime('%Y-%m-%d'): the text is determined by the three fields.
strftime(date) == CivilFromDays(date)

\* datetime.strptime(text, '%Y-%m-%d').date()
strptime(text) == DaysFromCivil(text[1], text[2], text[3])

----------------------------------------------------------------------------
(* str and list helpers                                                    *)

None == <<>>
Some(v) == <<v>>

\* str.lower() on ASCII text
LowerChar(c) == IF c >= 65 /\ c <= 90 THEN c + 32 ELSE c
Lower(s) == [i \in 1..Len(s) |-> LowerChar(s[i])]

\* list with element i removed
RemoveAt(s, i) == [j \in 1..(Len(s) - 1) |-> IF j < i THEN s[j] ELSE s[j + 1]]

\* max(list) of a non-empty list of dates
Max(s) == CHOOSE x \in {s[i] : i \in 1..Len(s)} :
              \A j \in 1..Len(s) : s[j] <= x

RECURSIVE InsertAsc(_, _)
InsertAsc(s, x) ==
    IF s = <<>> THEN <<x>>
    ELSE IF x < Head(s) THEN <<x>> \o s
    ELSE <<Head(s)>> \o InsertAsc(Tail(s), x)

\* sorted(list): ascending, stable
RECURSIVE sorted(_)
sorted(s) ==
    IF s = <<>> THEN <<>>
    ELSE InsertAsc(sorted(SubSeq(s, 1, Len(s) - 1)), s[Len(s)])

Reverse(s) == [i \in 1..Len(s) |-> s[Len(s) + 1 - i]]

\* sorted(list, reverse=True) on dates (equal dates are indistinguishable)
sorted_reverse(s) == Reverse(sorted(s))

----------------------------------------------------------------------------
(* habit.py                                                                *)

\* Habit.__init__
Habit(name, description, periodicity, completion_dates) ==
    [name             |-> name,
     description      |-> description,
     periodicity      |-> periodicity,
     completion_dates |-> sorted(completion_dates)]

\* is_consecutive comparing months without the years.
is_consecutive_months_only(habit, date1, date2) ==
    IF habit.periodicity = "daily" THEN date1 - date2 = 1
    ELSE IF habit.periodicity = "weekly" THEN date1 - date2 = 7
    ELSE IF habit.periodicity = "monthly" THEN
        \/ Month(date1) - Month(date2) = 1
        \/ (Month(date1) = 1 /\ Month(date2) = 12)
    ELSE FALSE

\* Habit._is_consecutive
is_consecutive(habit, date1, date2) ==
    IF habit.periodicity = "daily" THEN date1 - date2 = 1
    ELSE IF habit.periodicity = "weekly" THEN date1 - date2 = 7
    ELSE IF habit.periodicity = "monthly" THEN
        \/ (Month(date1) - Month(date2) = 1 /\ Year(date1) = Year(date2))
        \/ (Month(date1) = 1 /\ Month(date2) = 12 /\ Year(date1) - Year(date2) = 1)
    ELSE FALSE

\* StreakLoop without the break: a pair that is not consecutive is skipped.
RECURSIVE StreakLoop_no_break(_, _, _, _, _)
StreakLoop_no_break(habit, sorted_dates, i, current_date, streak) ==
    IF i > Len(sorted_dates) THEN streak
    ELSE IF is_consecutive(habit, current_date, sorted_dates[i])
         THEN StreakLoop_no_break(habit, sorted_dates, i + 1,
                                  sorted_dates[i], streak + 1)
         ELSE StreakLoop_no_break(habit, sorted_dates, i + 1,
                                  sorted_dates[i], streak)

\* The for loop of Habit.calculate_streak, from position i of sorted_dates.
RECURSIVE StreakLoop(_, _, _, _, _)
StreakLoop(habit, sorted_dates, i, current_date, streak) ==
    IF i > Len(sorted_dates) THEN streak
    ELSE IF is_consecutive(habit, current_date, sorted_dates[i])
         THEN StreakLoop(habit, sorted_dates, i + 1, sorted_dates[i], streak + 1)
         ELSE streak

\* Habit.calculate_streak (the property Habit.streak)
calculate_streak(habit) ==
    IF habit.completion_dates = <<>> THEN 0
    ELSE LET sorted_dates == sorted_reverse(habit.completion_dates)
         IN  StreakLoop(habit, sorted_dates, 2, sorted_dates[1], 1)

----------------------------------------------------------------------------
(* data_storage.py                                                         *)

\* save_habit with INSERT for INSERT OR REPLACE on a table without the
\* UNIQUE constraint.
save_habit_insert(rows, habit) ==
    Append(rows,
           [name             |-> habit.name,
            description      |-> habit.description,
            periodicity      |-> habit.periodicity,
            completion_dates |->
                [i \in 1..Len(habit.completion_dates) |->
                    strftime(habit.completion_dates[i])]])

\* DataStorage.save_habit: INSERT OR REPLACE on the UNIQUE column name
\* (compared byte for byte): a row of that name is deleted, the new row is
\* inserted with a fresh rowid.
save_habit(rows, habit) ==
    LET completion_dates ==
            [i \in 1..Len(habit.completion_dates) |->
                strftime(habit.completion_dates[i])]
    IN  SelectSeq(rows, LAMBDA r : r.name # habit.name)
        \o <<[name             |-> habit.name,
              description      |-> habit.description,
              periodicity      |-> habit.periodicity,
              completion_dates |-> completion_dates]>>

\* DataStorage.delete_habit
storage_delete_habit(rows, habit_name) ==
    SelectSeq(rows, LAMBDA r : r.name # habit_name)

\* DataStorage.load_habits
load_habits(rows) ==
    [k \in 1..Len(rows) |->
        Habit(rows[k].name, rows[k].description, rows[k].periodicity,
              [i \in 1..Len(rows[k].completion_dates) |->
                  strptime(rows[k].completion_dates[i])])]

----------------------------------------------------------------------------
(* habit_manager.py                                                        *)

\* HabitManager.get_habit: the position in self.habits of the habit
\* returned, 0 for None.
get_habit(hs, name) ==
    LET found == {i \in 1..Len(hs) : Lower(hs[i].name) = Lower(name)}
    IN  IF found = {} THEN 0
        ELSE CHOOSE i \in found : \A j \in found : i <= j

\* delete_lookup taking the first habit whatever its name.
delete_lookup_any(hs, name) == IF hs = <<>> THEN 0 ELSE 1

\* The position of the habit HabitManager.delete_habit removes, 0 when its
\* loop finds none.
delete_lookup(hs, name) ==
    LET found == {i \in 1..Len(hs) : hs[i].name = Lower(name)}
    IN  IF found = {} THEN 0
        ELSE CHOOSE i \in found : \A j \in found : i <= j

\* period_length in HabitManager.complete_habit, in days.  The if/elif
\* chain binds it for the three periodicities only.
period_length_bound(periodicity) ==
    periodicity \in {"daily", "weekly", "monthly"}

\* period_length without the period: any later day is accepted.
period_length_none(periodicity) == 0

period_length(periodicity) ==
    IF periodicity = "daily" THEN 1
    ELSE IF periodicity = "weekly" THEN 7
    ELSE 30

\* already_completed with the comparison made strict.
already_completed_strict(habit, today) ==
    today < Max(habit.completion_dates) + period_length(habit.periodicity)

\* The test "today <= last_completion + period_length" of
\* HabitManager.complete_habit, for a habit with completion dates.
already_completed(habit, today) ==
    today <= Max(habit.completion_dates) + period_length(habit.periodicity)

\* Python truth of an optional str argument: None and "" are false.
Truthy(opt, empty) == opt # None /\ opt[1] # empty

\* What a call leaves in ret: the operation, the value returned (None for
\* no value), the exception raised ("" for none) and the calls it made to
\* DataStorage, in order.
Call(op, result, raised, calls) ==
    [op |-> op, result |-> result, raised |-> raised, calls |-> calls]

\* One call to DataStorage.save_habit made by an operation.
SaveCall(habit) == [call |-> "save_habit", habit |-> habit]

----------------------------------------------------------------------------
(* habit_analyzer.py                                                       *)

\* LongestLoop with ">=" for ">": a later habit replaces an equal earlier one.
RECURSIVE LongestLoop_last(_, _, _, _)
LongestLoop_last(hs, i, longest_streak, longest_periodicity) ==
    IF i > Len(hs) THEN <<longest_streak, longest_periodicity>>
    ELSE LET streak      == calculate_streak(hs[i])
             periodicity == hs[i].periodicity
         IN  IF periodicity \notin {"daily", "weekly", "monthly"}
             THEN LongestLoop_last(hs, i + 1, longest_streak, longest_periodicity)
             ELSE LET streak_in_days ==
                          IF periodicity = "daily" THEN streak
                          ELSE IF periodicity = "weekly" THEN streak * 7
                          ELSE streak * 30
                  IN  IF streak_in_days >= longest_streak /\ streak_in_days > 0
                      THEN LongestLoop_last(hs, i + 1, streak_in_days,
                                            Some(periodicity))
                      ELSE LongestLoop_last(hs, i + 1, longest_streak,
                                            longest_periodicity)

\* The for loop of get_longest_streak from habit i on; longest_periodicity
\* is None or Some(periodicity).
RECURSIVE LongestLoop(_, _, _, _)
LongestLoop(hs, i, longest_streak, longest_periodicity) ==
    IF i > Len(hs) THEN <<longest_streak, longest_periodicity>>
    ELSE LET streak      == calculate_streak(hs[i])
             periodicity == hs[i].periodicity
         IN  IF periodicity \notin {"daily", "weekly", "monthly"}
             THEN LongestLoop(hs, i + 1, longest_streak, longest_periodicity)
             ELSE LET streak_in_days ==
                          IF periodicity = "daily" THEN streak
                          ELSE IF periodicity = "weekly" THEN streak * 7
                          ELSE streak * 30
                  IN  IF streak_in_days > longest_streak
                      THEN LongestLoop(hs, i + 1, streak_in_days, Some(periodicity))
                      ELSE LongestLoop(hs, i + 1, longest_streak, longest_periodicity)

\* get_longest_streak without the test for no periodicity found.
get_longest_streak_unset(hs) ==
    LET end == LongestLoop(hs, 1, 0, None)
    IN  IF end[2] = Some("weekly") THEN <<end[1] \div 7, end[2]>>
        ELSE IF end[2] = Some("monthly") THEN <<end[1] \div 30, end[2]>>
        ELSE end

\* get_longest_streak: the pair returned; its second component, a str in
\* every return statement of the code, is written Some(str).
get_longest_streak(hs) ==
    LET end == LongestLoop(hs, 1, 0, None)
        longest_streak == end[1]
        longest_periodicity == end[2]
    IN  IF longest_periodicity = None THEN <<0, Some("period")>>
        ELSE IF longest_periodicity = Some("daily")
             THEN <<longest_streak, longest_periodicity>>
        ELSE IF longest_periodicity = Some("weekly")
             THEN <<longest_streak \div 7, longest_periodicity>>
        ELSE <<longest_streak \div 30, longest_periodicity>>

----------------------------------------------------------------------------
(* Inputs                                                                  *)

MaxHabits == 2     \* habits held by the manager
MaxDates  == 2     \* completion dates of one habit

\* "run", "Run", "gym"
Names == {<<114, 117, 110>>, <<82, 117, 110>>, <<103, 121, 109>>}
LowerNames == {Lower(n) : n \in Names}
Periodicities == {"daily", "weekly", "monthly"}

\* Values of datetime.now().date(): a first day, the day one daily period
\* after it and the next one, the day one weekly period after the second
\* and the day one monthly period after the third.
FirstDay == DaysFromCivil(2024, 1, 1)
GateDates == {FirstDay, FirstDay + 1, FirstDay + 2,
              FirstDay + 1 + period_length("weekly"),
              FirstDay + 2 + period_length("monthly")}

OptionalOf(S) == {None} \cup {Some(v) : v \in S}

----------------------------------------------------------------------------
(* HabitManager operations                                                 *)

\* HabitManager.add_habit
add_habit(habit) ==
    /\ Len(habits) < MaxHabits
    /\ habits' = Append(habits, habit)
    /\ ret' = Call("add_habit", None, "", <<>>)
    /\ UNCHANGED storage

\* appended putting the date first.
appended_first(completion_dates, today) == <<today>> \o completion_dates

\* habit.completion_dates.append(today)
appended(completion_dates, today) == Append(completion_dates, today)

\* HabitManager.complete_habit, today being datetime.now().date()
complete_habit(habit_name, today) ==
    LET i == get_habit(habits, habit_name)
    IN  IF i = 0
        THEN /\ ret' = Call("complete_habit", FALSE, "", <<>>)
             /\ UNCHANGED <<habits, storage>>
        ELSE IF habits[i].completion_dates # <<>>
                /\ ~period_length_bound(habits[i].periodicity)
        THEN /\ ret' = Call("complete_habit", None, "UnboundLocalError", <<>>)
             /\ UNCHANGED <<habits, storage>>
        ELSE IF habits[i].completion_dates # <<>>
                /\ already_completed(habits[i], today)
        THEN /\ ret' = Call("complete_habit", FALSE, "", <<>>)
             /\ UNCHANGED <<habits, storage>>
        ELSE LET habit == [habits[i] EXCEPT
                              !.completion_dates = appended(@, today)]
             IN  /\ Len(habits[i].completion_dates) < MaxDates
                 /\ habits' = [habits EXCEPT ![i] = habit]
                 /\ storage' = save_habit(storage, habit)
                 /\ ret' = Call("complete_habit", TRUE, "", <<SaveCall(habit)>>)

\* edited with "is not None" as the test of new_description.
edited_not_none(habit, new_name, new_description, new_periodicity) ==
    [name             |-> IF Truthy(new_name, <<>>)
                          THEN new_name[1] ELSE habit.name,
     description      |-> IF new_description # None
                          THEN new_description[1] ELSE habit.description,
     periodicity      |-> IF Truthy(new_periodicity, "")
                          THEN new_periodicity[1] ELSE habit.periodicity,
     completion_dates |-> habit.completion_dates]

\* The habit after the three "if new_...:" assignments of
\* HabitManager.edit_habit.
edited(habit, new_name, new_description, new_periodicity) ==
    [name             |-> IF Truthy(new_name, <<>>)
                          THEN new_name[1] ELSE habit.name,
     description      |-> IF Truthy(new_description, "")
                          THEN new_description[1] ELSE habit.description,
     periodicity      |-> IF Truthy(new_periodicity, "")
                          THEN new_periodicity[1] ELSE habit.periodicity,
     completion_dates |-> habit.completion_dates]

\* HabitManager.edit_habit
edit_habit(name, new_name, new_description, new_periodicity) ==
    LET i == get_habit(habits, name)
    IN  IF i = 0
        THEN /\ ret' = Call("edit_habit", FALSE, "", <<>>)
             /\ UNCHANGED <<habits, storage>>
        ELSE LET habit == edited(habits[i], new_name, new_description,
                                 new_periodicity)
             IN  /\ habits' = [habits EXCEPT ![i] = habit]
                 /\ storage' = save_habit(storage, habit)
                 /\ ret' = Call("edit_habit", TRUE, "", <<SaveCall(habit)>>)

\* HabitManager.delete_habit
delete_habit(name) ==
    LET i == delete_lookup(habits, name)
    IN  /\ habits' = IF i = 0 THEN habits ELSE RemoveAt(habits, i)
        /\ ret' = Call("delete_habit", i # 0, "", <<>>)
        /\ UNCHANGED storage

\* HabitManager.__init__ on an empty table
Init ==
    /\ habits = <<>>
    /\ storage = <<>>
    /\ ret = Call("init", None, "", <<>>)

\* The registry under look-ups by name: every operation, names in both
\* cases.  add_habit is called as the front end, the tests and the
\* sideloader call it, with a new Habit whose name is in lower case.
Next ==
    \/ \E n \in LowerNames : add_habit(Habit(n, "jog", "daily", <<>>))
    \/ \E n \in Names : complete_habit(n, FirstDay)
    \/ \E n \in Names, nn \in OptionalOf(Names) :
           edit_habit(n, nn, None, None)
    \/ \E n \in Names : delete_habit(n)

Spec == Init /\ [][Next]_vars

\* The completion gate: habits of every periodicity completed on the days
\* around their period boundaries.
NextGate ==
    \/ \E n \in LowerNames, p \in Periodicities :
           add_habit(Habit(n, "jog", p, <<>>))
    \/ \E n \in LowerNames, t \in GateDates : complete_habit(n, t)

SpecGate == Init /\ [][NextGate]_vars

\* Editing: every combination of omitted, empty and new values of the
\* three optional arguments.
EditNames == OptionalOf({<<>>, <<103, 121, 109>>})
EditDescriptions == OptionalOf({"", "swim"})
EditPeriodicities == OptionalOf({"", "weekly"})

NextEdit ==
    \/ \E n \in LowerNames, c \in {<<>>, <<FirstDay>>} :
           add_habit(Habit(n, "jog", "daily", c))
    \/ \E n \in LowerNames, nn \in EditNames, nd \in EditDescriptions,
          np \in EditPeriodicities :
           edit_habit(n, nn, nd, np)

SpecEdit == Init /\ [][NextEdit]_vars

----------------------------------------------------------------------------
(* Habit and analytics functions on constructed habits                     *)

MaxSeeds == 5      \* completion dates given to Habit()
MaxList  == 3      \* habits given to get_longest_streak
MaxSpan  == 455    \* days of calendar after CalendarFirst
MaxDays  == 400    \* days after FixtureFirst on which the tests run

\* A periodicity string outside the three the code names.
AllPeriodicities == Periodicities \cup {"yearly"}

\* [today - timedelta(days=step * i) for i in range(n)], as the tests build
\* completion dates
Run(today, step, n) == [i \in 1..n |-> today - step * (i - 1)]

SeedStep(periodicity) ==
    IF periodicity = "weekly" THEN 7
    ELSE IF periodicity = "monthly" THEN 30
    ELSE 1

\* Completion dates for a habit of a periodicity: runs of days one period
\* apart back from 2024-03-15 (30 days apart for monthly: one in each
\* month back to November 2023), and a day off the pattern.
StreakToday == DaysFromCivil(2024, 3, 15)
SeedDates(periodicity) ==
    {StreakToday - SeedStep(periodicity) * k : k \in 0..(MaxSeeds - 1)}
        \cup {StreakToday - 3}

SeqsUpTo(S, n) == UNION {[1..k -> S] : k \in 0..n}

\* The property Habit.streak read on the first habit
streak ==
    /\ habits # <<>>
    /\ ret' = Call("calculate_streak", calculate_streak(habits[1]), "", <<>>)
    /\ UNCHANGED <<habits, storage>>

\* One habit built by Habit() from dates given in any order.
InitStreak ==
    /\ \E p \in AllPeriodicities :
          \E c \in SeqsUpTo(SeedDates(p), MaxSeeds) :
              habits = <<Habit(<<114, 117, 110>>, "jog", p, c)>>
    /\ storage = <<>>
    /\ ret = Call("init", None, "", <<>>)

NextStreak == streak

SpecStreak == InitStreak /\ [][NextStreak]_vars

\* Habit._is_consecutive called as calculate_streak calls it on a habit of
\* two dates: the later date first.
consecutive ==
    /\ Len(habits) = 1 /\ Len(habits[1].completion_dates) = 2
    /\ ret' = Call("_is_consecutive",
                   is_consecutive(habits[1],
                                  sorted_reverse(habits[1].completion_dates)[1],
                                  sorted_reverse(habits[1].completion_dates)[2]),
                   "", <<>>)
    /\ UNCHANGED <<habits, storage>>

\* The days of December 2023 to February 2025 that are the 1st, 2nd, 8th,
\* 15th or 31st of their month.
CalendarFirst == DaysFromCivil(2023, 12, 1)
CalendarDates ==
    {d \in CalendarFirst..(CalendarFirst + MaxSpan) :
        CivilFromDays(d)[3] \in {1, 2, 8, 15, 31}}

InitConsecutive ==
    /\ \E p \in AllPeriodicities, d1 \in CalendarDates, d2 \in CalendarDates :
          habits = <<Habit(<<114, 117, 110>>, "jog", p, <<d1, d2>>)>>
    /\ storage = <<>>
    /\ ret = Call("init", None, "", <<>>)

NextConsecutive == consecutive \/ streak

SpecConsecutive == InitConsecutive /\ [][NextConsecutive]_vars

\* TestHabitAnalytics.setUp run on the day today: the three habits added
\* and saved.
setUp(today) ==
    <<Habit(<<109, 101, 100, 105, 116, 97, 116, 101>>, "Daily meditation", "daily", Run(today, 1, 5)),
      Habit(<<109, 101, 101, 116, 105, 110, 103>>, "Weekly meeting", "weekly", Run(today, 7, 3)),
      Habit(<<98, 117, 100, 103, 101, 116>>, "Monthly budget review", "monthly", Run(today, 30, 4))>>

RECURSIVE SaveAll(_, _, _)
SaveAll(rows, hs, i) ==
    IF i > Len(hs) THEN rows ELSE SaveAll(save_habit(rows, hs[i]), hs, i + 1)

FixtureFirst == DaysFromCivil(2024, 1, 1)

InitFixture ==
    /\ \E today \in FixtureFirst..(FixtureFirst + MaxDays) :
          habits = setUp(today)
    /\ storage = SaveAll(<<>>, habits, 1)
    /\ ret = Call("init", None, "", <<>>)

\* get_longest_streak(habit_manager.habits), as the front end and
\* test_get_longest_streak call it
longest_streak ==
    /\ ret' = Call("get_longest_streak", get_longest_streak(habits), "", <<>>)
    /\ UNCHANGED <<habits, storage>>

\* get_longest_streak_for_habit on the last habit
longest_streak_for_habit ==
    /\ habits # <<>>
    /\ ret' = Call("get_longest_streak_for_habit",
                   <<calculate_streak(habits[Len(habits)]),
                     Some(habits[Len(habits)].periodicity)>>, "", <<>>)
    /\ UNCHANGED <<habits, storage>>

NextFixture == longest_streak \/ longest_streak_for_habit

SpecFixture == InitFixture /\ [][NextFixture]_vars

\* Lists of habits whose completion dates are runs of 0, 1, 2, 5 or 7 days
\* one period apart.
RunLengths == {0, 1, 2, 5, 7}
AnalyticsHabits ==
    {Habit(<<114, 117, 110>>, "jog", p, Run(StreakToday, SeedStep(p), n)) :
        p \in AllPeriodicities, n \in RunLengths}

InitAnalytics ==
    /\ habits \in SeqsUpTo(AnalyticsHabits, MaxList)
    /\ storage = <<>>
    /\ ret = Call("init", None, "", <<>>)

NextAnalytics == longest_streak

SpecAnalytics == InitAnalytics /\ [][NextAnalytics]_vars

----------------------------------------------------------------------------
(* cli.py: the front end, each command with its calls to DataStorage       *)

\* str.lower() of a periodicity typed at the front end; "Weekly" is the one
\* typed with a capital.
periodicity_lower(periodicity) ==
    IF periodicity = "Weekly" THEN "weekly" ELSE periodicity

\* "value if value else None" of cli.edit_habit on a line read by input()
FromInput(value, empty) == IF value = empty THEN None ELSE Some(value)

\* cli.create_habit
create_habit(name, description, periodicity) ==
    IF periodicity_lower(periodicity) \notin {"daily", "weekly", "monthly"}
    THEN /\ ret' = Call("create_habit", None, "", <<>>)
         /\ UNCHANGED <<habits, storage>>
    ELSE LET habit == Habit(Lower(name), description,
                            periodicity_lower(periodicity), <<>>)
         IN  /\ Len(habits) < MaxHabits
             /\ habits' = Append(habits, habit)
             /\ storage' = save_habit(storage, habit)
             /\ ret' = Call("create_habit", None, "", <<SaveCall(habit)>>)

\* cli.complete_habit: HabitManager.complete_habit on the name as typed;
\* what follows it only reads the habit.
cli_complete_habit(habit_name, today) == complete_habit(habit_name, today)

\* cli.edit_habit, the three lines read by input() being its last three
\* arguments
cli_edit_habit(name, new_name, new_description, new_periodicity) ==
    IF get_habit(habits, Lower(name)) = 0
    THEN /\ ret' = Call("cli.edit_habit", None, "", <<>>)
         /\ UNCHANGED <<habits, storage>>
    ELSE edit_habit(name, FromInput(new_name, <<>>),
                    FromInput(new_description, ""),
                    FromInput(new_periodicity, ""))

\* cli.delete_habit: HabitManager.delete_habit, then DataStorage.delete_habit
\* if it succeeded
cli_delete_habit(habit_name) ==
    LET i == delete_lookup(habits, Lower(habit_name))
    IN  /\ habits' = IF i = 0 THEN habits ELSE RemoveAt(habits, i)
        /\ storage' = IF i = 0 THEN storage
                      ELSE storage_delete_habit(storage, Lower(habit_name))
        /\ ret' = Call("cli.delete_habit", i # 0, "",
                       IF i = 0 THEN <<>>
                       ELSE <<[call |-> "delete_habit",
                               habit_name |-> Lower(habit_name)]>>)

\* tracker = HabitManager(DataStorage()); tracker.habits =
\* tracker.storage.load_habits(), on an empty table
InitFrontEnd ==
    /\ storage = <<>>
    /\ habits = load_habits(storage)
    /\ ret = Call("init", None, "", <<>>)

\* Names typed at the front end: "run" and "Run" as the name of a habit,
\* nothing, "Run" or "gym" as its new name.
TypedNames == {<<114, 117, 110>>, <<82, 117, 110>>}
TypedNewNames == {<<>>, <<82, 117, 110>>, <<103, 121, 109>>}

\* The front end under names: habits created, renamed, completed and
\* deleted.
NextFrontEnd ==
    \/ \E n \in TypedNames, p \in {"daily", "yearly"} :
           create_habit(n, "jog", p)
    \/ \E n \in TypedNames : cli_complete_habit(n, FirstDay)
    \/ \E n \in TypedNames, nn \in TypedNewNames :
           cli_edit_habit(n, nn, "", "")
    \/ \E n \in TypedNames : cli_delete_habit(n)

SpecFrontEnd == InitFrontEnd /\ [][NextFrontEnd]_vars

\* Periodicities typed at the front end, for a new habit and as the new
\* periodicity of a habit.
TypedPeriodicities == {"daily", "Weekly", "yearly"}
TypedNewPeriodicities == {"", "monthly", "yearly"}

\* The front end under periodicities: one name, every periodicity typed.
NextPeriodicity ==
    \/ \E p \in TypedPeriodicities :
           create_habit(<<114, 117, 110>>, "jog", p)
    \/ \E t \in {FirstDay, FirstDay + 1} :
           cli_complete_habit(<<114, 117, 110>>, t)
    \/ \E np \in TypedNewPeriodicities :
           cli_edit_habit(<<114, 117, 110>>, <<>>, "", np)
    \/ cli_delete_habit(<<114, 117, 110>>)

SpecPeriodicity == InitFrontEnd /\ [][NextPeriodicity]_vars

----------------------------------------------------------------------------
(* HabitManager operations in which DataStorage.save_habit raises          *)

\* in_memory putting the habit back as it was before the operation.
in_memory_rolled_back(habit_before, habit) == habit_before

\* The habit held in self.habits when save_habit has raised: the object was
\* changed in place before the call and no handler restores it.
in_memory(habit_before, habit) == habit

\* HabitManager.complete_habit on its accepting path, save_habit raising
complete_habit_save_fails(habit_name, today) ==
    LET i == get_habit(habits, habit_name)
    IN  /\ i # 0
        /\ IF habits[i].completion_dates = <<>> THEN TRUE
           ELSE /\ period_length_bound(habits[i].periodicity)
                /\ ~already_completed(habits[i], today)
        /\ Len(habits[i].completion_dates) < MaxDates
        /\ LET habit == [habits[i] EXCEPT
                            !.completion_dates = appended(@, today)]
           IN  /\ habits' = [habits EXCEPT ![i] = in_memory(habits[i], habit)]
               /\ ret' = Call("complete_habit", None, "sqlite3.Error",
                              <<SaveCall(habit)>>)
        /\ UNCHANGED storage

\* HabitManager.edit_habit of a habit found, save_habit raising
edit_habit_save_fails(name, new_name, new_description, new_periodicity) ==
    LET i == get_habit(habits, name)
    IN  /\ i # 0
        /\ LET habit == edited(habits[i], new_name, new_description,
                               new_periodicity)
           IN  /\ habits' = [habits EXCEPT ![i] = in_memory(habits[i], habit)]
               /\ ret' = Call("edit_habit", None, "sqlite3.Error",
                              <<SaveCall(habit)>>)
        /\ UNCHANGED storage

FailureDescriptions == OptionalOf({"", "swim"})
FailurePeriodicities == OptionalOf({"weekly"})

\* Habits named "run" created at the front end, then completed and edited
\* with save_habit working or raising.
FailureNames == {<<114, 117, 110>>}
FailureDays == {FirstDay, FirstDay + 2}

NextFailure ==
    \/ \E n \in FailureNames : create_habit(n, "jog", "daily")
    \/ \E n \in FailureNames, t \in FailureDays : complete_habit(n, t)
    \/ \E n \in FailureNames, t \in FailureDays :
           complete_habit_save_fails(n, t)
    \/ \E n \in FailureNames, nd \in FailureDescriptions,
          np \in FailurePeriodicities :
           edit_habit(n, None, nd, np)
    \/ \E n \in FailureNames, nd \in FailureDescriptions,
          np \in FailurePeriodicities :
           edit_habit_save_fails(n, None, nd, np)

SpecFailure == InitFrontEnd /\ [][NextFailure]_vars

----------------------------------------------------------------------------
(* DataStorage called on its own, as TestDataStorage calls it              *)

MaxStored == 2     \* completion dates of a habit given to save_habit

\* Habits given to DataStorage.save_habit: two names, two descriptions, two
\* periodicities, and up to MaxStored of three dates in any order.
StoredDates ==
    {DaysFromCivil(2024, 1, 1), DaysFromCivil(2024, 1, 2),
     DaysFromCivil(2024, 2, 29)}
StoredHabits ==
    {Habit(n, d, p, c) :
        n \in LowerNames, d \in {"jog", "swim"}, p \in {"daily", "weekly"},
        c \in SeqsUpTo(StoredDates, MaxStored)}

\* A call of DataStorage.save_habit
storage_save(habit) ==
    /\ storage' = save_habit(storage, habit)
    /\ ret' = Call("save_habit", None, "", <<SaveCall(habit)>>)
    /\ UNCHANGED habits

\* A call of DataStorage.load_habits
storage_load ==
    /\ ret' = Call("load_habits", load_habits(storage), "", <<>>)
    /\ UNCHANGED <<habits, storage>>

NextStorage ==
    \/ \E habit \in StoredHabits : storage_save(habit)
    \/ storage_load

SpecStorage == Init /\ [][NextStorage]_vars

----------------------------------------------------------------------------
(* Properties of the registry and the completion gate                      *)

\* Every position of hs but i holds the same habit in hs2.
OthersUnchanged(hs, hs2, i) ==
    /\ Len(hs2) = Len(hs)
    /\ \A j \in 1..Len(hs) : j # i => hs2[j] = hs[j]

\* The most recent completion date of a habit that has one.
LastCompletion(habit) ==
    CHOOSE d \in {habit.completion_dates[k] :
                     k \in 1..Len(habit.completion_dates)} :
        \A k \in 1..Len(habit.completion_dates) :
            habit.completion_dates[k] <= d

\* periodLength of the specification, in days.
PeriodDays(periodicity) ==
    CASE periodicity = "daily"   -> 1
      [] periodicity = "weekly"  -> 7
      [] periodicity = "monthly" -> 30

\* C1: a completion of a habit found in the registry returns true iff the
\* habit has no completion date or today is later than its last completion
\* plus one period (1, 7, 30 days), and false otherwise.
C1_GateRule ==
    [][\A n \in LowerNames, t \in GateDates :
          (complete_habit(n, t) /\ get_habit(habits, n) # 0) =>
              LET h == habits[get_habit(habits, n)]
              IN  /\ ret'.raised = ""
                  /\ ret'.result <=>
                        \/ h.completion_dates = <<>>
                        \/ t > LastCompletion(h) + PeriodDays(h.periodicity)]_vars

\* C1 witness: a daily habit last completed on the first day has been
\* completed again two days later.
C1_Witness ==
    /\ ret.op = "complete_habit" /\ ret.raised = "" /\ ret.result
    /\ \E i \in 1..Len(habits) :
          /\ habits[i].periodicity = "daily"
          /\ habits[i].completion_dates = <<FirstDay, FirstDay + 2>>

\* C2: a rejected completion changes neither the registry nor the table and
\* calls DataStorage not at all; an accepted one appends exactly today to
\* the habit's completion dates, changes nothing else of the registry and
\* calls save_habit exactly once, with that habit.
C2_GateEffects ==
    [][\A n \in LowerNames, t \in GateDates :
          (complete_habit(n, t) /\ get_habit(habits, n) # 0) =>
              LET i == get_habit(habits, n)
              IN  /\ ret'.raised = ""
                  /\ ~ret'.result =>
                        /\ habits' = habits
                        /\ storage' = storage
                        /\ ret'.calls = <<>>
                  /\ ret'.result =>
                        /\ OthersUnchanged(habits, habits', i)
                        /\ habits'[i].completion_dates =
                               habits[i].completion_dates \o <<t>>
                        /\ habits'[i].name = habits[i].name
                        /\ habits'[i].description = habits[i].description
                        /\ habits'[i].periodicity = habits[i].periodicity
                        /\ Len(ret'.calls) = 1
                        /\ ret'.calls[1].call = "save_habit"
                        /\ ret'.calls[1].habit = habits'[i]]_vars

\* C2 witness: with two habits in the registry, the second has accepted a
\* second completion and the first has completion dates of its own.
C2_Witness ==
    /\ ret.op = "complete_habit" /\ ret.raised = "" /\ ret.result
    /\ Len(habits) = 2
    /\ Len(habits[1].completion_dates) = 1
    /\ Len(habits[2].completion_dates) = 2
    /\ Len(ret.calls) = 1 /\ ret.calls[1].habit = habits[2]

\* C8: edit, delete and complete of a name that matches no habit return
\* false, change neither the registry nor the table and make no call to
\* DataStorage.
C8_NotFound ==
    [][\A n \in Names :
          ( /\ get_habit(habits, n) = 0
            /\ \/ \E nn \in OptionalOf(Names) : edit_habit(n, nn, None, None)
               \/ delete_habit(n)
               \/ complete_habit(n, FirstDay) ) =>
              /\ ret'.raised = ""
              /\ ~ret'.result
              /\ habits' = habits
              /\ storage' = storage
              /\ ret'.calls = <<>>]_vars

\* C8 witness: an edit has returned false while the registry holds a habit
\* with completion dates and the table a row.
C8_Witness ==
    /\ ret.op = "edit_habit" /\ ret.raised = "" /\ ~ret.result
    /\ habits # <<>> /\ habits[1].completion_dates # <<>>
    /\ storage # <<>>

\* An optional argument was given, whatever its value.
Given(opt) == opt # None

\* An optional argument was given with a value other than the empty string.
GivenNonEmpty(opt, empty) == opt # None /\ opt[1] # empty

\* The effects C9 states of an edit of the habit at position i, the
\* supplied fields being those of the set supplied.
EditEffects(i, new_name, new_description, new_periodicity, supplied) ==
    /\ ret'.raised = "" /\ ret'.result
    /\ OthersUnchanged(habits, habits', i)
    /\ habits'[i].name =
           IF "name" \in supplied THEN new_name[1] ELSE habits[i].name
    /\ habits'[i].description =
           IF "description" \in supplied THEN new_description[1]
           ELSE habits[i].description
    /\ habits'[i].periodicity =
           IF "periodicity" \in supplied THEN new_periodicity[1]
           ELSE habits[i].periodicity
    /\ habits'[i].completion_dates = habits[i].completion_dates
    /\ Len(ret'.calls) = 1
    /\ ret'.calls[1].call = "save_habit"
    /\ ret'.calls[1].habit = habits'[i]
    /\ \E k \in 1..Len(storage') :
          /\ storage'[k].name = habits'[i].name
          /\ load_habits(storage')[k] = habits'[i]

\* C9 as stated: an edit of an existing habit returns true, replaces exactly
\* the fields that were supplied, leaves the omitted fields, the completion
\* dates and every other habit unchanged, and persists the habit.
C9_Original ==
    [][\A n \in LowerNames, nn \in EditNames, nd \in EditDescriptions,
          np \in EditPeriodicities :
          (edit_habit(n, nn, nd, np) /\ get_habit(habits, n) # 0) =>
              EditEffects(get_habit(habits, n), nn, nd, np,
                  {f \in {"name", "description", "periodicity"} :
                      \/ f = "name" /\ Given(nn)
                      \/ f = "description" /\ Given(nd)
                      \/ f = "periodicity" /\ Given(np)})]_vars

\* C9 amended: an edit of an existing habit returns true, replaces exactly
\* the fields supplied with a non-empty value, leaves the fields omitted or
\* supplied as the empty string, the completion dates and every other habit
\* unchanged, and persists the habit.
C9_EditNonEmpty ==
    [][\A n \in LowerNames, nn \in EditNames, nd \in EditDescriptions,
          np \in EditPeriodicities :
          (edit_habit(n, nn, nd, np) /\ get_habit(habits, n) # 0) =>
              EditEffects(get_habit(habits, n), nn, nd, np,
                  {f \in {"name", "description", "periodicity"} :
                      \/ f = "name" /\ GivenNonEmpty(nn, <<>>)
                      \/ f = "description" /\ GivenNonEmpty(nd, "")
                      \/ f = "periodicity" /\ GivenNonEmpty(np, "")})]_vars

\* C9 witness: the first of two habits has been edited in all three fields,
\* keeps its completion date, and its row is in the table.
C9_Witness ==
    /\ ret.op = "edit_habit" /\ ret.raised = "" /\ ret.result
    /\ Len(habits) = 2
    /\ habits[1] = [name |-> <<103, 121, 109>>, description |-> "swim",
                    periodicity |-> "weekly",
                    completion_dates |-> <<FirstDay>>]
    /\ habits[2].description = "jog"
    /\ ret.calls = <<SaveCall(habits[1])>>

\* C10 as stated: delete returns true and removes a habit iff get_habit
\* finds one for the name, and edit and complete act on the habit get_habit
\* returns.
C10_Original ==
    [][\A n \in Names :
          /\ delete_habit(n) =>
                /\ ret'.result <=> get_habit(habits, n) # 0
                /\ Len(habits') = Len(habits) - 1 <=> get_habit(habits, n) # 0
          /\ ( \/ \E nn \in OptionalOf(Names) : edit_habit(n, nn, None, None)
               \/ complete_habit(n, FirstDay) ) =>
                /\ ret'.result => get_habit(habits, n) # 0
                /\ OthersUnchanged(habits, habits', get_habit(habits, n))]_vars


----------------------------------------------------------------------------
(* Properties of the streak and of the analytics                           *)

\* The k-th date of completion_dates in descending order.
DescAt(completion_dates, k) ==
    CHOOSE v \in {completion_dates[i] : i \in DOMAIN completion_dates} :
        /\ Cardinality({i \in DOMAIN completion_dates :
                            completion_dates[i] > v}) < k
        /\ k <= Cardinality({i \in DOMAIN completion_dates :
                                 completion_dates[i] >= v})

\* C3: the streak of a habit is 0 when it has no completion dates and
\* otherwise the length of the longest prefix of its dates in descending
\* order in which every adjacent pair is consecutive for its periodicity;
\* the first pair that is not consecutive ends the count.  Daily dates
\* today, today-1, today-2 give 3; today, today-2 give 1; five consecutive
\* daily dates give 5.
C3_StreakIsConsecutivePrefix ==
    ret.op = "calculate_streak" =>
        LET h    == habits[1]
            n    == Len(h.completion_dates)
            d(k) == DescAt(h.completion_dates, k)
        IN  /\ n = 0 => ret.result = 0
            /\ n > 0 =>
                  /\ ret.result \in 1..n
                  /\ \A i \in 1..(ret.result - 1) :
                        is_consecutive(h, d(i), d(i + 1))
                  /\ ret.result < n =>
                        ~is_consecutive(h, d(ret.result), d(ret.result + 1))
            /\ h.periodicity = "daily" =>
                  /\ h.completion_dates
                        = <<StreakToday - 2, StreakToday - 1, StreakToday>>
                     => ret.result = 3
                  /\ h.completion_dates = <<StreakToday - 2, StreakToday>>
                     => ret.result = 1
                  /\ h.completion_dates
                        = <<StreakToday - 4, StreakToday - 3, StreakToday - 2,
                            StreakToday - 1, StreakToday>>
                     => ret.result = 5

\* C3 witness: a daily habit given today-3, today, today-4, today-1 in that
\* order has streak 2: the run behind the gap is not counted.
C3_Witness ==
    /\ ret.op = "calculate_streak"
    /\ habits[1].periodicity = "daily"
    /\ habits[1].completion_dates
          = <<StreakToday - 4, StreakToday - 3, StreakToday - 1, StreakToday>>
    /\ ret.result = 2

\* The number of a date's calendar month, counted through the years.
MonthIndex(date) == Year(date) * 12 + Month(date)

\* Whether later follows earlier by one period.
FollowsByOnePeriod(periodicity, later, earlier) ==
    CASE periodicity = "daily"   -> later - earlier = 1
      [] periodicity = "weekly"  -> later - earlier = 7
      [] periodicity = "monthly" -> MonthIndex(later) - MonthIndex(earlier) = 1

\* C4: for dates later >= earlier, _is_consecutive is true for a daily
\* habit iff they are exactly 1 day apart, for a weekly habit iff exactly 7
\* days apart, and for a monthly habit iff later's calendar month is the
\* month immediately after earlier's, whatever the days of the month; a
\* habit of the two dates has streak 2 if they are consecutive and 1 if
\* not.  2024-01-31 after 2023-12-31 is consecutive, 2024-03-15 after
\* 2024-01-15 is not.
C4_ConsecutiveByPeriod ==
    (/\ Len(habits) = 1
     /\ Len(habits[1].completion_dates) = 2
     /\ habits[1].periodicity \in Periodicities) =>
        LET h        == habits[1]
            earlier  == h.completion_dates[1]
            later    == h.completion_dates[2]
            expected == FollowsByOnePeriod(h.periodicity, later, earlier)
        IN  /\ ret.op = "_is_consecutive" =>
                  /\ ret.result = expected
                  /\ (/\ h.periodicity = "monthly"
                      /\ later = DaysFromCivil(2024, 1, 31)
                      /\ earlier = DaysFromCivil(2023, 12, 31))
                     => ret.result = TRUE
                  /\ (/\ h.periodicity = "monthly"
                      /\ later = DaysFromCivil(2024, 3, 15)
                      /\ earlier = DaysFromCivil(2024, 1, 15))
                     => ret.result = FALSE
            /\ ret.op = "calculate_streak" =>
                  ret.result = IF expected THEN 2 ELSE 1

\* C4 witness: a monthly habit completed on 2023-12-31 and 2024-01-31 has
\* had the two dates found consecutive.
C4_Witness ==
    /\ ret.op = "_is_consecutive"
    /\ habits[1].periodicity = "monthly"
    /\ habits[1].completion_dates
          = <<DaysFromCivil(2023, 12, 31), DaysFromCivil(2024, 1, 31)>>
    /\ ret.result = TRUE

\* C5 as stated: on every day the monthly habit of the test fixture, with
\* completions today and 30, 60 and 90 days before, has streak 4, and
\* get_longest_streak over the fixture's daily, weekly and monthly habits
\* returns (4, "monthly").
C5_Original ==
    /\ ret.op = "get_longest_streak_for_habit"
          => ret.result = <<4, Some("monthly")>>
    /\ ret.op = "get_longest_streak"
          => ret.result = <<4, Some("monthly")>>

\* The streak of habit i of hs in days, for the three periodicities the
\* analytics name.
NormalizedStreak(hs, i) ==
    calculate_streak(hs[i]) *
        (CASE hs[i].periodicity = "daily"   -> 1
           [] hs[i].periodicity = "weekly"  -> 7
           [] hs[i].periodicity = "monthly" -> 30)

Recognised(hs) == {i \in DOMAIN hs : hs[i].periodicity \in Periodicities}

\* C6: when some daily, weekly or monthly habit of the list has a positive
\* streak, get_longest_streak returns the streak and the periodicity of the
\* first such habit whose normalized streak is the maximum over the list;
\* a later habit with an equal normalized streak does not replace it.
\* Daily streak 5, weekly streak 2, monthly streak 1 give (1, "monthly").
C6_FirstMaximum ==
    (/\ ret.op = "get_longest_streak"
     /\ \E i \in Recognised(habits) : calculate_streak(habits[i]) > 0) =>
        LET best == CHOOSE i \in Recognised(habits) :
                        /\ \A j \in Recognised(habits) :
                              NormalizedStreak(habits, j)
                                  <= NormalizedStreak(habits, i)
                        /\ \A j \in Recognised(habits) :
                              j < i => NormalizedStreak(habits, j)
                                          < NormalizedStreak(habits, i)
        IN  /\ ret.result = <<calculate_streak(habits[best]),
                              Some(habits[best].periodicity)>>
            /\ (/\ Len(habits) = 3
                /\ \A i \in 1..3 :
                      habits[i].periodicity = <<"daily", "weekly", "monthly">>[i]
                /\ \A i \in 1..3 :
                      calculate_streak(habits[i]) = <<5, 2, 1>>[i])
               => ret.result = <<1, Some("monthly")>>

\* C6 witness: the longest streak has been taken over a daily habit with
\* streak 5, a weekly habit with streak 2 and a monthly habit with streak 1.
C6_Witness ==
    /\ ret.op = "get_longest_streak"
    /\ Len(habits) = 3
    /\ habits[1].periodicity = "daily" /\ calculate_streak(habits[1]) = 5
    /\ habits[2].periodicity = "weekly" /\ calculate_streak(habits[2]) = 2
    /\ habits[3].periodicity = "monthly" /\ calculate_streak(habits[3]) = 1
    /\ ret.result = <<1, Some("monthly")>>

\* C7 as stated: get_longest_streak returns count 0 and no periodicity
\* value when the list is empty or no habit in it has a positive streak.
C7_Original ==
    (/\ ret.op = "get_longest_streak"
     /\ \A i \in DOMAIN habits : calculate_streak(habits[i]) = 0)
        => ret.result = <<0, None>>

\* C7 amended: get_longest_streak returns count 0 and the string "period"
\* when the list is empty or no habit in it has a positive streak.
C7_ZeroAndPlaceholder ==
    (/\ ret.op = "get_longest_streak"
     /\ \A i \in DOMAIN habits : calculate_streak(habits[i]) = 0)
        => ret.result = <<0, Some("period")>>

\* C7 witness: the longest streak has been taken over two habits without a
\* completion.
C7_Witness ==
    /\ ret.op = "get_longest_streak"
    /\ Len(habits) = 2
    /\ \A i \in DOMAIN habits : habits[i].completion_dates = <<>>
    /\ ret.result = <<0, Some("period")>>

----------------------------------------------------------------------------
(* Properties of the front end                                             *)

\* C11 as stated: in every state reached through create, edit, complete and
\* delete from an empty store, every habit name in the registry and in the
\* table is in lower case and no two habits of the registry share a name.
C11_Original ==
    /\ \A i \in DOMAIN habits : habits[i].name = Lower(habits[i].name)
    /\ \A k \in DOMAIN storage : storage[k].name = Lower(storage[k].name)
    /\ \A i \in DOMAIN habits : \A j \in DOMAIN habits :
          i # j => habits[i].name # habits[j].name

\* C12 as stated: in every state reached through create, edit, complete and
\* delete, the periodicity of every habit of the registry and of every row
\* of the table is daily, weekly or monthly.
C12_Original ==
    /\ \A i \in DOMAIN habits : habits[i].periodicity \in Periodicities
    /\ \A k \in DOMAIN storage : storage[k].periodicity \in Periodicities

\* C14 as stated: when the front end's delete of a name has succeeded, the
\* registry finds no habit of that name and the table holds no row of it.
C14_Original ==
    (ret.op = "cli.delete_habit" /\ ret.result = TRUE) =>
        /\ get_habit(habits, ret.calls[1].habit_name) = 0
        /\ \A k \in DOMAIN storage :
              storage[k].name # ret.calls[1].habit_name

\* A list without its repeated elements.
RECURSIVE WithoutDuplicates(_)
WithoutDuplicates(s) ==
    IF s = <<>> THEN <<>>
    ELSE LET rest == WithoutDuplicates(Tail(s))
         IN  IF \E i \in DOMAIN rest : rest[i] = Head(s)
             THEN rest ELSE <<Head(s)>> \o rest

\* C15 as stated: the streak of a habit equals the streak of the habit with
\* the same completion dates, each taken once.
C15_Original ==
    ret.op = "calculate_streak" =>
        ret.result
            = calculate_streak(
                  Habit(habits[1].name, habits[1].description,
                        habits[1].periodicity,
                        WithoutDuplicates(habits[1].completion_dates)))

\* A habit as its name, description, periodicity and set of dates.
AsRecord(habit) ==
    [name        |-> habit.name,
     description |-> habit.description,
     periodicity |-> habit.periodicity,
     dates       |-> {habit.completion_dates[i] :
                         i \in DOMAIN habit.completion_dates}]

\* C18 as stated: after any sequence of create, complete, edit and delete
\* at the front end, the habits load_habits would return are the habits of
\* the registry: same names, descriptions, periodicities and date sets.
C18_Original ==
    {AsRecord(load_habits(storage)[k]) : k \in DOMAIN storage}
        = {AsRecord(habits[i]) : i \in DOMAIN habits}

\* C13: after save_habit of a habit, load_habits returns one habit of its
\* name, with its description, its periodicity and its set of completion
\* dates; a habit without completion dates is stored with an empty
\* completion_dates column and loaded with no dates; saving a name again
\* replaces its row, so no two rows share a name.
C13_RoundTrip ==
    /\ \A k \in DOMAIN storage : \A l \in DOMAIN storage :
          k # l => storage[k].name # storage[l].name
    /\ ret.op = "load_habits" => Len(ret.result) = Len(storage)
    /\ ret.op = "save_habit" =>
          LET habit  == ret.calls[1].habit
              loaded == load_habits(storage)
              at     == {k \in DOMAIN loaded : loaded[k].name = habit.name}
          IN  /\ Cardinality(at) = 1
              /\ \A k \in at :
                    /\ AsRecord(loaded[k]) = AsRecord(habit)
                    /\ habit.completion_dates = <<>> =>
                          /\ storage[k].completion_dates = <<>>
                          /\ loaded[k].completion_dates = <<>>

\* C13 witness: a habit completed on 2024-01-01 and 2024-01-02 has been
\* saved over an earlier row of its name, next to a row of another name.
C13_Witness ==
    /\ ret.op = "save_habit"
    /\ Len(storage) = 2
    /\ storage[2].name = ret.calls[1].habit.name
    /\ storage[2].description = "swim"
    /\ ret.calls[1].habit.completion_dates
          = <<DaysFromCivil(2024, 1, 1), DaysFromCivil(2024, 1, 2)>>
    /\ AsRecord(load_habits(storage)[2]) = AsRecord(ret.calls[1].habit)

\* C16: when save_habit raises during an accepted completion or an edit of
\* an existing habit, the exception reaches the caller, save_habit has been
\* called once, the table is unchanged, and the habit in the registry keeps
\* the appended date or the replaced fields, every other habit being
\* unchanged: where the operation changed the habit, the registry and the
\* table differ afterwards.
C16_FailedSaveKeepsMutation ==
    [][/\ \A n \in FailureNames, t \in FailureDays :
             (ret'.raised # "" /\ complete_habit_save_fails(n, t)) =>
                 LET i == get_habit(habits, n)
                 IN  /\ ret'.result = None
                     /\ Len(ret'.calls) = 1
                     /\ ret'.calls[1].habit = habits'[i]
                     /\ storage' = storage
                     /\ OthersUnchanged(habits, habits', i)
                     /\ habits'[i].completion_dates
                           = Append(habits[i].completion_dates, t)
                     /\ \A k \in DOMAIN storage' :
                           AsRecord(load_habits(storage')[k])
                               # AsRecord(habits'[i])
       /\ \A n \in FailureNames, nd \in FailureDescriptions,
             np \in FailurePeriodicities :
             (ret'.raised # "" /\ edit_habit_save_fails(n, None, nd, np)) =>
                 LET i == get_habit(habits, n)
                 IN  /\ ret'.result = None
                     /\ Len(ret'.calls) = 1
                     /\ ret'.calls[1].habit = habits'[i]
                     /\ storage' = storage
                     /\ OthersUnchanged(habits, habits', i)
                     /\ habits'[i].name = habits[i].name
                     /\ habits'[i].completion_dates
                           = habits[i].completion_dates
                     /\ habits'[i].description
                           = IF GivenNonEmpty(nd, "") THEN nd[1]
                             ELSE habits[i].description
                     /\ habits'[i].periodicity
                           = IF GivenNonEmpty(np, "") THEN np[1]
                             ELSE habits[i].periodicity
                     /\ (/\ habits'[i] # habits[i]
                         /\ \E k \in DOMAIN storage :
                               load_habits(storage)[k] = habits[i])
                        => \A k \in DOMAIN storage' :
                              storage'[k].name = habits'[i].name =>
                                  load_habits(storage')[k] # habits'[i]]_vars

\* C16 witness: a completion has raised out of save_habit; the habit holds
\* the date in the registry and its row holds none.
C16_Witness ==
    /\ ret.op = "complete_habit"
    /\ ret.raised = "sqlite3.Error"
    /\ Len(habits) = 1 /\ Len(storage) = 1
    /\ habits[1].completion_dates = <<FirstDay>>
    /\ storage[1].name = habits[1].name
    /\ storage[1].completion_dates = <<>>

\* C17: for habits created without completion dates and completed only
\* through complete_habit, any two completion dates of a habit are more
\* than one period apart (1, 7, 30 days), and the streak of a daily or
\* weekly habit never exceeds 1.
C17_OnePerPeriod ==
    \A i \in DOMAIN habits :
        LET dates == habits[i].completion_dates
        IN  /\ \A a \in DOMAIN dates : \A b \in DOMAIN dates :
                  a < b => dates[b] - dates[a]
                              > PeriodDays(habits[i].periodicity)
            /\ habits[i].periodicity \in {"daily", "weekly"}
                  => calculate_streak(habits[i]) <= 1

\* C17 witness: a weekly habit has accepted a second completion eight days
\* after the first, and its streak is 1.
C17_Witness ==
    /\ ret.op = "complete_habit" /\ ret.raised = "" /\ ret.result = TRUE
    /\ \E i \in DOMAIN habits :
          /\ habits[i].periodicity = "weekly"
          /\ habits[i].completion_dates = <<FirstDay, FirstDay + 8>>
          /\ calculate_streak(habits[i]) = 1

============================================================================
